---- MODULE Spec2Model ----
(***************************************************************************)
(* Order creation, the admin status update and the PayFast notification    *)
(* handler of src/controllers/orderController.js, as a state machine over  *)
(* the Product and Order collections.                                      *)
(*                                                                         *)
(* A handler runs atomically between two awaits that reach the database;   *)
(* each action below is one such stretch, ending with the database         *)
(* operation it awaits.  Other requests may run between two actions.       *)
(***************************************************************************)
EXTENDS Integers, Sequences, FiniteSets, TLC

VARIABLES
    stock,      \* Product collection: the persisted stock of each product
    orders,     \* Order collection: the persisted orders, an order's id is its index
    req,        \* createOrder: each request's position and local variables
    bulk,       \* the Product.bulkWrite calls issued by restoreStock, with the ops still to run
    hook,       \* handlePayfastNotification: the notification being handled
    lastRes     \* the last response of updateOrderStatus or handlePayfastNotification

vars == <<stock, orders, req, bulk, hook, lastRes>>

(***************************************************************************)
(* Bounds of the model.                                                    *)
(***************************************************************************)
InitStock      == 3    \* stock of every product in the initial state
MaxQuantity    == 2    \* largest quantity of a line item
MaxItems       == 2    \* most line items in one request
MaxCancels     == 2    \* status updates to Cancelled (each issues one bulkWrite)
MaxRaceCancels == 1    \* the same, beside concurrent checkouts
MaxReplays     == 3    \* deliveries of one payment notification in a row
MaxStatOrders  == 2    \* orders in the collection getSalesStats aggregates

None == "none"

Products   == {"A", "B"}
UnknownId  == "X"                       \* a well-formed id that matches no product
Price(p)   == IF p = "A" THEN 2 ELSE 3  \* productSchema.price, never written by these handlers
Requests   == {1, 2}                    \* the createOrder requests, which may run concurrently
OrderIds   == 1..(Cardinality(Requests) + 1)  \* ids a caller may name; the last one matches no order

RECURSIVE SumSeq(_)
SumSeq(s) == IF s = <<>> THEN 0 ELSE Head(s) + SumSeq(Tail(s))

\* The quantity a list of (order or request) items holds of product p.
RECURSIVE QtyOf(_, _)
QtyOf(items, p) ==
    IF items = <<>> THEN 0
    ELSE (IF Head(items).product = p THEN Head(items).quantity ELSE 0) + QtyOf(Tail(items), p)

(***************************************************************************)
(* Request bodies.  A field of req.body is drawn at the step that first    *)
(* reads its value: the first step reads the items and which required      *)
(* fields are truthy, the last step the amounts, the coupon code and the   *)
(* payment method (all truthy where required).                             *)
(***************************************************************************)
Quantities     == 1..MaxQuantity
RequestItems   == [id : Products \cup {UnknownId}, quantity : Quantities]
ItemLists      == UNION {[1..n -> RequestItems] : n \in 0..MaxItems}
SingleItemLists == {l \in ItemLists : Len(l) <= 1}
\* Item lists whose quantities are any number the body may hold: negative, zero or
\* positive (createOrder does not check them before processOrderItems).
AnyQuantityLists ==
    UNION {[1..n -> [id : Products, quantity : (0 - MaxQuantity)..MaxQuantity]] :
             n \in 0..MaxItems}
RequiredFields == {"email", "phone", "name", "subtotal", "shippingCost", "shippingAddress", "totalAmount"}
\* What a body holds under a required field: nothing, '', the number 0 or a value
\* that is neither.  Bodies: every field holds a value, or all but one do.
FieldValues    == {"absent", "empty", "zero", "value"}
Bodies         ==
    {[f \in RequiredFields |-> IF f = g THEN v ELSE "value"] :
        g \in RequiredFields, v \in FieldValues}

\* Variant: a numeric 0 counts as given.
Falsy_ZeroGiven(v) == v \in {"absent", "empty"}

\* line 25: !req.body[field] is true for undefined, '' and 0
Falsy(v) == v \in {"absent", "empty", "zero"}

\* The truthy required fields of a body.
TruthyFields(b) == {f \in RequiredFields : ~Falsy(b[f])}

\* The sets of truthy required fields: all of them, or all but one.
PresentSets    == {TruthyFields(b) : b \in Bodies}

Users          == {None, "u1"}          \* req.user: a guest or an authenticated user
Coupons        == {"SAVE"}              \* Coupon collection: the codes that exist
CouponCodes    == {None, "save", "SAVE", "BAD"}
ToUpperCase(c) == IF c = "save" THEN "SAVE" ELSE c
PaymentMethods == {"COD", "PayFast", "Card"}

IdleHook == [pc |-> "idle", id |-> 0, set |-> <<>>]

\* amounts before the last step has read them
NoAmounts == [subtotal |-> 0, shippingCost |-> 0, hasDiscount |-> FALSE, discount |-> 0,
              totalAmount |-> 0, couponCode |-> None, user |-> None, paymentMethod |-> None]

IdleReq == [pc |-> "idle", items |-> <<>>, i |-> 0, docs |-> <<>>,
            orderItems |-> <<>>, calculatedSubtotal |-> 0, amounts |-> NoAmounts,
            res |-> <<>>, order |-> 0, mail |-> None]

\* What the last response of updateOrderStatus or handlePayfastNotification holds:
\* the status code, and for an updated order the deliveredAt of the document sent
\* back and how the dispatch of the status email went (None: no email).
AdminResponse(code, deliveredAt, mail) ==
    [op |-> "updateOrderStatus", code |-> code, deliveredAt |-> deliveredAt, mail |-> mail]

HookResponse(code) ==
    [op |-> "handlePayfastNotification", code |-> code, deliveredAt |-> None, mail |-> None]

Init ==
    /\ stock = [p \in Products |-> InitStock]
    /\ orders = <<>>
    /\ req = [r \in Requests |-> IdleReq]
    /\ bulk = <<>>
    /\ hook = IdleHook
    /\ lastRes = [op |-> None, code |-> 0, deliveredAt |-> None, mail |-> None]

(***************************************************************************)
(* Responses: handleError(res, code, message) and handleResponse.  res     *)
(* holds every response the handler tried to send, in order; the client    *)
(* receives the first.                                                     *)
(***************************************************************************)
Response(code, kind) == [code |-> code, kind |-> kind]

\* createOrder's catch block: handleError(res, 500, error.message).
Catch(q, message) ==
    [q EXCEPT !.pc = "done", !.res = Append(@, Response(500, message))]

\* A finished request keeps its responses, the order it persisted (0: none), the
\* items it processed and the amounts it declared and computed; the items it was
\* sent and its product documents are dropped.
Finished(q) ==
    [q EXCEPT !.items = <<>>, !.i = 0, !.docs = <<>>]

(***************************************************************************)
(* createOrder, lines 18-30: required fields, the item list, Product.find. *)
(***************************************************************************)
missingFields(present) == RequiredFields \ present

ProductFind(ids) == [p \in (ids \cap Products) |-> stock[p]]

CreateOrderStart(r, lists, presents) ==
    /\ req[r].pc = "idle"
    /\ \E items \in lists, present \in presents :
         req' = [req EXCEPT ![r] =
            IF missingFields(present) # {}
            THEN [@ EXCEPT !.pc = "done",
                           !.res = <<Response(400, "ValidationError")>>]
            ELSE IF Len(items) = 0
            THEN [@ EXCEPT !.pc = "done",
                           !.res = <<Response(400, "NoItems")>>]
            ELSE [@ EXCEPT !.pc = "items", !.items = items, !.i = 1,
                           !.docs = ProductFind({items[k].id : k \in 1..Len(items)})]]
    /\ UNCHANGED <<stock, orders, bulk, hook, lastRes>>

(***************************************************************************)
(* processOrderItems, one iteration of the loop: the checks on the         *)
(* in-memory product document, the decrement and product.save().           *)
(***************************************************************************)
\* line 257: the stock check against the document read by Product.find
InsufficientStock(docStock, quantity) == docStock < quantity

\* product.save() validates the modified path (stock, min 0) before it writes.
ProductSaveValid(newStock) == newStock >= 0

\* Variant: the decrement is written as an unconditional $inc.
ProductSave_Inc(st, p, oldStock, newStock) ==
    [st EXCEPT ![p] = @ + (newStock - oldStock)]

\* product.save() $set-s the stock the request computed from its own copy of the
\* document; a document whose stock is unmodified is not written.
ProductSave(st, p, oldStock, newStock) ==
    IF newStock = oldStock THEN st ELSE [st EXCEPT ![p] = newStock]

ProcessOrderItem(r) ==
    /\ req[r].pc = "items"
    /\ LET q    == req[r]
           item == q.items[q.i]
       IN  IF item.id \notin DOMAIN q.docs
           THEN /\ req' = [req EXCEPT ![r] = Finished(Catch(q, "ProductNotFound"))]
                /\ UNCHANGED stock
           ELSE IF InsufficientStock(q.docs[item.id], item.quantity)
           THEN /\ req' = [req EXCEPT ![r] = Finished(Catch(q, "InsufficientStock"))]
                /\ UNCHANGED stock
           ELSE LET newStock == q.docs[item.id] - item.quantity IN
                IF ~ProductSaveValid(newStock)
                THEN /\ req' = [req EXCEPT ![r] =
                                  Finished(Catch(q, "ProductValidation"))]
                     /\ UNCHANGED stock
                ELSE /\ stock' = ProductSave(stock, item.id, q.docs[item.id], newStock)
                     /\ req' = [req EXCEPT ![r] =
                          [q EXCEPT !.docs[item.id] = newStock,
                                    !.orderItems = Append(@, [product |-> item.id,
                                                              quantity |-> item.quantity,
                                                              price |-> Price(item.id)]),
                                    !.calculatedSubtotal = @ + Price(item.id) * item.quantity,
                                    !.i = @ + 1,
                                    !.pc = IF q.i = Len(q.items) THEN "finish" ELSE "items"]]
    /\ UNCHANGED <<orders, bulk, hook, lastRes>>

(***************************************************************************)
(* createOrder, lines 33-67: the amounts, the coupon, the order document   *)
(* and order.save().                                                       *)
(***************************************************************************)
\* The fields of req.body read here, given the subtotal the items add up to: the
\* client declares that subtotal or another, a consistent total or another.
\* hasDiscount is FALSE for a body without a discount field (amounts.discount is
\* undefined; the discount field of the record is then not read).
AllInputs(calc) ==
    {[subtotal |-> calc + ds, shippingCost |-> 1,
      hasDiscount |-> h, discount |-> IF h THEN d ELSE 0,
      totalAmount |-> calc + 1 - (IF h THEN d ELSE 0) + dt,
      couponCode |-> c, user |-> u, paymentMethod |-> m] :
        ds \in {0, 1}, h \in BOOLEAN, d \in {0, 1}, dt \in {0, 1},
        c \in CouponCodes, u \in Users, m \in PaymentMethods}

\* A guest's cash-on-delivery checkout without coupon or discount.
PlainInputs(calc) ==
    {f \in AllInputs(calc) : /\ f.subtotal = calc /\ f.hasDiscount /\ f.discount = 0
                             /\ f.couponCode = None
                             /\ f.user = None /\ f.paymentMethod = "COD"}

\* Variant: the total is checked against the subtotal the client declared.
validateOrderAmounts_Declared(amounts, calculatedSubtotal) ==
    /\ amounts.hasDiscount
    /\ amounts.totalAmount = amounts.subtotal + amounts.shippingCost - amounts.discount

\* validateOrderAmounts: TRUE when it returns, FALSE when it responds 400 and throws.
\* Without a discount, calculatedTotal is NaN (a number minus undefined), and
\* totalAmount !== NaN whatever totalAmount is.
validateOrderAmounts(amounts, calculatedSubtotal) ==
    /\ amounts.hasDiscount
    /\ amounts.totalAmount = calculatedSubtotal + amounts.shippingCost - amounts.discount

\* Variant: a code that matches no coupon is ignored.
handleCoupon_Lenient(couponCode, user) ==
    IF couponCode = None THEN [coupon |-> None, error |-> None]
    ELSE IF user = None THEN [coupon |-> None, error |-> "CouponRequiresAuth"]
    ELSE IF ToUpperCase(couponCode) \notin Coupons THEN [coupon |-> None, error |-> None]
    ELSE [coupon |-> ToUpperCase(couponCode), error |-> None]

\* handleCoupon: the coupon found, None without a code, or the error thrown
handleCoupon(couponCode, user) ==
    IF couponCode = None THEN [coupon |-> None, error |-> None]
    ELSE IF user = None THEN [coupon |-> None, error |-> "CouponRequiresAuth"]
    ELSE IF ToUpperCase(couponCode) \notin Coupons THEN [coupon |-> None, error |-> "CouponInvalid"]
    ELSE [coupon |-> ToUpperCase(couponCode), error |-> None]

\* generatePayfastPayload as persisted: paymentResult keeps the schema's fields
\* (id, status, update_time, email_address), so redirectUrl is not stored.
NoPayment      == [id |-> None, status |-> None]
PendingPayment == [id |-> None, status |-> "pending"]

\* createOrderDocument, with the schema's defaults applied
createOrderDocument(items, amounts, user, coupon) ==
    [items |-> items,
     subtotal |-> amounts.subtotal,
     shippingCost |-> amounts.shippingCost,
     discount |-> IF amounts.hasDiscount THEN amounts.discount ELSE 0,
     totalAmount |-> amounts.totalAmount,
     user |-> user,
     couponUsed |-> coupon,
     status |-> "Processing",
     paymentResult |-> IF amounts.paymentMethod = "PayFast" THEN PendingPayment ELSE NoPayment,
     trackingId |-> None,
     deliveredAt |-> None]

\* order.save() of a new document: the schema's validators
OrderValid(order, paymentMethod) ==
    /\ \A k \in 1..Len(order.items) : order.items[k].quantity >= 1
    /\ paymentMethod \in {"COD", "PayFast"}

\* How transporter.sendMail ends.
MailOutcomes == {"sent", "failed"}

\* Variant: sendOrderEmail lets the failure of the transport escape to its caller.
sendOrderEmailThrows_NoCatch(outcome) == outcome = "failed"

\* sendOrderEmail, lines 544-555: an async function whose whole body is inside
\* try/catch; the call never throws and its promise is never rejected.
sendOrderEmailThrows(outcome) == FALSE

\* createOrder from validateOrderAmounts to its response; the rest of the body is
\* read here (plain: from PlainInputs, otherwise from AllInputs).  A guest's order
\* is followed by sendOrderEmail, which is not awaited; a throw of the call itself
\* would reach the catch block, after order.save().
CreateOrderFinish(r, plain, mails) ==
    /\ req[r].pc = "finish"
    /\ LET q == req[r] IN
       \E f \in (IF plain THEN PlainInputs(q.calculatedSubtotal) ELSE AllInputs(q.calculatedSubtotal)),
          mail \in mails :
         LET q1     == [q EXCEPT !.amounts = f]
             coupon == handleCoupon(f.couponCode, f.user)
             order  == createOrderDocument(q.orderItems, f, f.user, coupon.coupon)
         IN  IF ~validateOrderAmounts(f, q.calculatedSubtotal)
             THEN /\ req' = [req EXCEPT ![r] = Finished(Catch(
                                [q1 EXCEPT !.res = Append(@, Response(400, "AmountMismatch"))],
                                "AmountValidationFailed"))]
                  /\ UNCHANGED orders
             ELSE IF coupon.error # None
             THEN /\ req' = [req EXCEPT ![r] = Finished(Catch(q1, coupon.error))]
                  /\ UNCHANGED orders
             ELSE IF ~OrderValid(order, f.paymentMethod)
             THEN /\ req' = [req EXCEPT ![r] = Finished(Catch(q1, "OrderValidation"))]
                  /\ UNCHANGED orders
             ELSE LET q2 == [q1 EXCEPT !.order = Len(orders) + 1,
                                       !.mail = IF f.user = None THEN mail ELSE None]
                  IN  /\ orders' = Append(orders, order)
                      /\ req' = [req EXCEPT ![r] = Finished(
                                  IF f.user = None /\ sendOrderEmailThrows(mail)
                                  THEN Catch(q2, "EmailError")
                                  ELSE [q2 EXCEPT !.pc = "done",
                                                  !.res = Append(@, Response(201, "Created"))])]
    /\ UNCHANGED <<stock, bulk, hook, lastRes>>

(***************************************************************************)
(* updateOrderStatus: the status check, Order.findByIdAndUpdate and the    *)
(* synchronous part of handleStatusChange, which is not awaited: for       *)
(* Cancelled it issues restoreStock's bulkWrite and the handler responds   *)
(* while the bulkWrite is pending.                                         *)
(***************************************************************************)
\* Variant: the list also admits Refunded.
validStatuses_WithRefunded ==
    {"Processing", "Shipped", "Delivered", "Cancelled", "Tracking", "Refunded"}

validStatuses == {"Processing", "Shipped", "Delivered", "Cancelled", "Tracking"}

\* req.body.status values the list does not hold (includes() compares exactly)
InvalidStatuses == {"Refunded", "cancelled"}

\* req.body.trackingId: absent or given
TrackingIds == {None, "TRK"}

\* handleStatusChange, lines 368-370: deliveredAt is assigned on the document that
\* findByIdAndUpdate returned, which is sent back and never saved.
ResponseDeliveredAt(order, status) ==
    IF status = "Delivered" THEN "now" ELSE order.deliveredAt

\* sendStatusEmail: the statuses that have an email template.  The caller is an
\* admin (user.role === 'admin'), as the operation requires.
MailedStatuses == {"Shipped", "Delivered", "Cancelled", "Tracking"}

\* Variant: only the first item is restored.
restoreStockOps_FirstOnly(items) == IF items = <<>> THEN <<>> ELSE <<Head(items)>>

\* restoreStock, lines 376-381: one updateOne op per order item
restoreStockOps(items) == items

\* Variant: a delivery restores the stock as well.
restoresStock_Delivered(newStatus) == newStatus \in {"Cancelled", "Delivered"}

\* handleStatusChange, lines 364-366: restoreStock is called for 'Cancelled' only
restoresStock(newStatus) == newStatus = "Cancelled"

UpdateOrderStatus(ids, statuses, trackingIds, maxCancels, mails) ==
    \E id \in ids, status \in statuses, trackingId \in trackingIds, mail \in mails :
      IF status \notin validStatuses
      THEN /\ lastRes' = AdminResponse(400, None, None)
           /\ UNCHANGED <<stock, orders, req, bulk, hook>>
      ELSE IF id \notin DOMAIN orders
      THEN /\ lastRes' = AdminResponse(404, None, None)
           /\ UNCHANGED <<stock, orders, req, bulk, hook>>
      ELSE /\ restoresStock(status) => Len(bulk) < maxCancels
           /\ orders' = [orders EXCEPT ![id].status = status,
                                       ![id].trackingId = IF trackingId # None THEN trackingId ELSE @]
           /\ bulk' = IF restoresStock(status)
                      THEN Append(bulk, [order |-> id,
                                         first |-> orders[id].status # "Cancelled",
                                         ops |-> restoreStockOps(orders[id].items),
                                         restored |-> [p \in Products |-> 0]])
                      ELSE bulk
           /\ lastRes' = AdminResponse(200, ResponseDeliveredAt(orders[id], status),
                                        IF status \in MailedStatuses THEN mail ELSE None)
           /\ UNCHANGED <<stock, req, hook>>

\* One op of a bulkWrite: updateOne({_id: item.product}, {$inc: {stock: item.quantity}}),
\* atomic on its document.
RestoreOp(st, item) ==
    IF item.product \in DOMAIN st
    THEN [st EXCEPT ![item.product] = @ + item.quantity]
    ELSE st

\* Product.bulkWrite runs its ops in order, one document at a time.
BulkWriteStep(u) ==
    /\ u \in DOMAIN bulk
    /\ bulk[u].ops # <<>>
    /\ stock' = RestoreOp(stock, Head(bulk[u].ops))
    /\ bulk' = [bulk EXCEPT ![u].ops = Tail(@),
                            ![u].restored = [p \in Products |-> @[p] + stock'[p] - stock[p]]]
    /\ UNCHANGED <<orders, req, hook, lastRes>>

(***************************************************************************)
(* handlePayfastNotification: the signature check and Order.findById, then *)
(* updateOrderFromPayment and order.save().                                *)
(***************************************************************************)
Passphrase == "secret"      \* process.env.PAYFAST_PASSPHRASE

\* The string verifyPayfastSignature hashes: key=value pairs in key order, then the
\* passphrase.  The digest is taken to be collision free: two digests are equal
\* exactly when the strings are.
InboundSignatureString(data) ==
    <<<<"m_payment_id", data.m_payment_id>>, <<"payment_status", data.payment_status>>,
      <<"pf_payment_id", data.pf_payment_id>>, <<"passphrase", Passphrase>>>>

Forged == <<<<"forged", "">>>>     \* a signature that is the digest of no notification

\* The same string without the passphrase: what a sender who lacks the secret signs.
UnsaltedSignatureString(data) == SubSeq(InboundSignatureString(data), 1, 3)

\* data.signature of a notification: signed by PayFast ("valid"), signed without
\* the passphrase, the valid signature of a notification whose payment_status was
\* altered afterwards, or an arbitrary string.
SignatureKinds == {"valid", "unsalted", "tampered", "forged"}

Signature(data, kind) ==
    CASE kind = "valid"    -> InboundSignatureString(data)
      [] kind = "unsalted" -> UnsaltedSignatureString(data)
      [] kind = "tampered" -> InboundSignatureString(
                                [data EXCEPT !.payment_status =
                                    IF @ = "COMPLETE" THEN "FAILED" ELSE "COMPLETE"])
      [] OTHER             -> Forged

\* Variant: the expected signature is computed without the passphrase.
verifyPayfastSignature_NoPassphrase(data, receivedSignature) ==
    UnsaltedSignatureString(data) = receivedSignature

verifyPayfastSignature(data, receivedSignature) ==
    InboundSignatureString(data) = receivedSignature

PaymentStatuses == {"COMPLETE", "FAILED", "PENDING"}

NotificationData(ids, statuses) ==
    [m_payment_id : ids, payment_status : statuses, pf_payment_id : {"pf1"}]

\* Variant: a FAILED notification reopens an order that is already Cancelled.
updateOrderFromPayment_Toggle(status, data) ==
    [paymentResult |-> [id |-> data.pf_payment_id, status |-> data.payment_status],
     status |-> IF data.payment_status = "COMPLETE" THEN "Processing"
                ELSE IF data.payment_status = "FAILED"
                     THEN (IF status = "Cancelled" THEN "Processing" ELSE "Cancelled")
                ELSE status]

\* Variant: every notification but a FAILED one sets Processing.
updateOrderFromPayment_ElseProcessing(status, data) ==
    [paymentResult |-> [id |-> data.pf_payment_id, status |-> data.payment_status],
     status |-> IF data.payment_status = "FAILED" THEN "Cancelled" ELSE "Processing"]

\* Variant: a COMPLETE notification records the payment and leaves the status.
updateOrderFromPayment_KeepStatus(status, data) ==
    [paymentResult |-> [id |-> data.pf_payment_id, status |-> data.payment_status],
     status |-> IF data.payment_status = "FAILED" THEN "Cancelled" ELSE status]

\* updateOrderFromPayment: the payment result and the status of the in-memory document.
\* rawData is no path of the Order schema and is not stored; update_time is left out.
updateOrderFromPayment(status, data) ==
    [paymentResult |-> [id |-> data.pf_payment_id, status |-> data.payment_status],
     status |-> IF data.payment_status = "COMPLETE" THEN "Processing"
                ELSE IF data.payment_status = "FAILED" THEN "Cancelled"
                ELSE status]

\* order.save() of a loaded document writes ($set) the paths whose value was changed:
\* the payment result, and the status when it differs from the status loaded.
ModifiedPaths(loaded, doc) ==
    IF doc.status # loaded.status
    THEN [paymentResult |-> doc.paymentResult, status |-> doc.status]
    ELSE [paymentResult |-> doc.paymentResult]

\* What order.save() will write for a notification, given the document loaded.
PaymentUpdate(loaded, data) ==
    ModifiedPaths(loaded, updateOrderFromPayment(loaded.status, data))

\* The write of order.save(): a $set of the modified paths on the stored document.
OrderSave(doc, set) ==
    [f \in DOMAIN doc |-> IF f \in DOMAIN set THEN set[f] ELSE doc[f]]

\* Variant: an id that matches no order falls back to the latest order.
OrderFindById_Latest(id) == IF id \in DOMAIN orders THEN id ELSE Len(orders)

\* Order.findById: the id of the document found, 0 for null.
OrderFindById(id) == IF id \in DOMAIN orders THEN id ELSE 0

\* lines 160-172: up to the call of order.save(), whose write is then pending
HookReceive(ids, statuses, kinds) ==
    /\ hook.pc = "idle"
    /\ \E data \in NotificationData(ids, statuses) :
       \E signature \in {Signature(data, kind) : kind \in kinds} :
         IF ~verifyPayfastSignature(data, signature)
         THEN /\ lastRes' = HookResponse(400)
              /\ UNCHANGED hook
         ELSE IF OrderFindById(data.m_payment_id) = 0
         THEN /\ lastRes' = HookResponse(404)
              /\ UNCHANGED hook
         ELSE LET loaded == orders[OrderFindById(data.m_payment_id)] IN
              /\ hook' = [pc |-> "save", id |-> OrderFindById(data.m_payment_id),
                          set |-> PaymentUpdate(loaded, data)]
              /\ UNCHANGED lastRes
    /\ UNCHANGED <<stock, orders, req, bulk>>

\* Variant: the write of a FAILED notification also restores the order's stock.
HookSave_Restock ==
    /\ hook.pc = "save"
    /\ orders' = [orders EXCEPT ![hook.id] = OrderSave(@, hook.set)]
    /\ stock' = IF hook.set.paymentResult.status = "FAILED"
                THEN [p \in Products |-> stock[p] + QtyOf(orders[hook.id].items, p)]
                ELSE stock
    /\ hook' = IdleHook
    /\ lastRes' = HookResponse(200)
    /\ UNCHANGED <<req, bulk>>

\* lines 172-174: the write of order.save(), then the response
HookSave ==
    /\ hook.pc = "save"
    /\ orders' = [orders EXCEPT ![hook.id] = OrderSave(@, hook.set)]
    /\ hook' = IdleHook
    /\ lastRes' = HookResponse(200)
    /\ UNCHANGED <<stock, req, bulk>>

(***************************************************************************)
(* getSalesStats: the $match stage built from the query, Order.aggregate   *)
(* and the response.  Times are days; an order's createdAt is stamped by   *)
(* the schema's timestamps option when it is saved.                        *)
(***************************************************************************)
\* The length of a period in days; setMonth(getMonth() - 1) goes back one calendar
\* month, taken as 30 days.
PeriodDays(period) ==
    CASE period = "week"  -> 7
      [] period = "month" -> 30
      [] period = "year"  -> 365

Now == PeriodDays("year") + PeriodDays("month")     \* new Date()

Periods == {None, "week", "month", "year", "decade"}

\* lines 196-208: the start of the period, the epoch for a period it does not know
PeriodStart(period) ==
    IF period \in {"week", "month", "year"} THEN Now - PeriodDays(period) ELSE 0

\* orderSchema, timestamps: true
Timestamped(doc, t) ==
    [f \in DOMAIN doc \cup {"createdAt"} |-> IF f = "createdAt" THEN t ELSE doc[f]]

\* The dates of a query, and the creation times of the orders in the collection:
\* those dates and a day more than a year ago.
Dates      == {PeriodStart("year"), PeriodStart("month"), PeriodStart("week"), Now}
CreatedAts == Dates \cup {PeriodStart("year") - PeriodDays("week")}

\* req.query: hasStart and hasEnd tell whether startDate and endDate are given
\* (truthy); a date that is not given is not read and stands as Now.  A query with
\* both dates may name a period as well.
DatedQuery(s, e) ==
    [hasStart : {TRUE}, startDate : {s}, hasEnd : {TRUE}, endDate : {e},
     period : {None, "week"}]

\* Queries with one date or none, and any period.
UndatedQueries ==
    [hasStart : {TRUE}, startDate : {PeriodStart("month")}, hasEnd : {FALSE},
     endDate : {Now}, period : Periods]
    \cup [hasStart : {FALSE}, startDate : {Now}, hasEnd : {TRUE},
          endDate : {PeriodStart("month")}, period : Periods]
    \cup [hasStart : {FALSE}, startDate : {Now}, hasEnd : {FALSE}, endDate : {Now},
          period : Periods]

Queries == UNION {DatedQuery(s, e) : s \in Dates, e \in Dates} \cup UndatedQueries

\* Variant: a period, when given, is used before the dates are looked at.
matchStage_PeriodFirst(query) ==
    IF query.period # None
    THEN [all |-> FALSE, gte |-> PeriodStart(query.period), lte |-> Now]
    ELSE IF query.hasStart /\ query.hasEnd
    THEN [all |-> FALSE, gte |-> query.startDate, lte |-> query.endDate]
    ELSE [all |-> TRUE, gte |-> 0, lte |-> 0]

\* lines 185-215: no filter unless both dates or a period are given
matchStage(query) ==
    IF query.hasStart /\ query.hasEnd
    THEN [all |-> FALSE, gte |-> query.startDate, lte |-> query.endDate]
    ELSE IF query.period # None
    THEN [all |-> FALSE, gte |-> PeriodStart(query.period), lte |-> Now]
    ELSE [all |-> TRUE, gte |-> 0, lte |-> 0]

\* Variant: the end of the range is exclusive ($lt).
Match_OpenEnd(order, m) ==
    m.all \/ (order.createdAt >= m.gte /\ order.createdAt < m.lte)

\* { $match: matchStage }
Match(order, m) ==
    m.all \/ (order.createdAt >= m.gte /\ order.createdAt <= m.lte)

\* The $group stage over the documents matched: one document with the five sums.
Group(docs) ==
    [totalOrders       |-> Len(docs),
     couponsUsed       |-> SumSeq([k \in 1..Len(docs) |->
                                    IF docs[k].couponUsed # None THEN 1 ELSE 0]),
     totalSales        |-> SumSeq([k \in 1..Len(docs) |-> docs[k].subtotal]),
     totalShippingCost |-> SumSeq([k \in 1..Len(docs) |-> docs[k].shippingCost]),
     totalRevenue      |-> SumSeq([k \in 1..Len(docs) |-> docs[k].totalAmount])]

\* Order.aggregate: $group with _id: null yields no document for an empty input.
Aggregate(m) ==
    LET InRange(order) == Match(order, m)
        matched == SelectSeq(orders, InRange)
    IN  IF matched = <<>> THEN <<>> ELSE <<Group(matched)>>

\* lines 235-241: stats[0] || { ...zeros }
SalesResult(stats) ==
    IF stats # <<>> THEN stats[1]
    ELSE [totalOrders |-> 0, couponsUsed |-> 0, totalSales |-> 0,
          totalShippingCost |-> 0, totalRevenue |-> 0]

StatsResponse(code, result) ==
    [op |-> "getSalesStats", code |-> code, deliveredAt |-> None, mail |-> None,
     data |-> result]

GetSalesStats(queries) ==
    /\ \E query \in queries :
         lastRes' = StatsResponse(200, SalesResult(Aggregate(matchStage(query))))
    /\ UNCHANGED <<stock, orders, req, bulk, hook>>

\* The collection getSalesStats reads: up to MaxStatOrders orders of one unit of A by
\* an authenticated user paying on delivery, without coupon and discount or with a
\* coupon and a discount of 1, each as createOrder persists it and stamped with its
\* creation time, in order of creation.
StatsInputs ==
    {f \in AllInputs(Price("A")) :
        /\ f.user = "u1" /\ f.paymentMethod = "COD"
        /\ f.subtotal = Price("A") /\ f.hasDiscount
        /\ \/ f.couponCode = None /\ f.discount = 0
           \/ f.couponCode = "SAVE" /\ f.discount = 1
        /\ validateOrderAmounts(f, Price("A"))}

StatsDocs ==
    {Timestamped(createOrderDocument(
                    <<[product |-> "A", quantity |-> 1, price |-> Price("A")]>>,
                    f, f.user, handleCoupon(f.couponCode, f.user).coupon), t) :
        f \in StatsInputs, t \in CreatedAts}

InitStats ==
    /\ \E n \in 0..MaxStatOrders :
         /\ orders \in [1..n -> StatsDocs]
         /\ \A k \in 1..(n - 1) : orders[k].createdAt <= orders[k + 1].createdAt
         /\ stock = [p \in Products |-> IF p = "A" THEN InitStock - n ELSE InitStock]
    /\ req = [r \in Requests |-> IdleReq]
    /\ bulk = <<>>
    /\ hook = IdleHook
    /\ lastRes = [op |-> None, code |-> 0, deliveredAt |-> None, mail |-> None]

(***************************************************************************)
(* getOrderById: Order.findById, authorizeOrderAccess and the response.    *)
(* req.user is the User document the protect middleware loaded.            *)
(***************************************************************************)
Callers == [id : {"u1", "u2"}, role : {"user", "admin"}]

\* Variant: an order without an owner is open to every caller.
authorizeOrderAccess_GuestOpen(order, user) ==
    order.user = None \/ order.user = user.id \/ user.role = "admin"

\* authorizeOrderAccess: order.user?.equals(user._id) || user.role === 'admin'
authorizeOrderAccess(order, user) ==
    (order.user # None /\ order.user = user.id) \/ user.role = "admin"

\* The response of getOrderById: the status code and the order sent (0: none).
OrderResponse(code, order) ==
    [op |-> "getOrderById", code |-> code, deliveredAt |-> None, mail |-> None,
     order |-> order]

GetOrderById(ids, callers) ==
    /\ \E id \in ids, user \in callers :
         lastRes' = IF OrderFindById(id) = 0 THEN OrderResponse(404, 0)
                    ELSE IF ~authorizeOrderAccess(orders[OrderFindById(id)], user)
                    THEN OrderResponse(403, 0)
                    ELSE OrderResponse(200, OrderFindById(id))
    /\ UNCHANGED <<stock, orders, req, bulk, hook>>

(***************************************************************************)
(* generatePayfastPayload and verifyPayfastSignature over any parameters   *)
(* and any passphrase setting.  A string key=value&key=value is held as    *)
(* the sequence of its (key, encoded value) pairs: the encodings escape &  *)
(* and =, so two strings are equal exactly when the sequences are.  The    *)
(* digest is taken to be collision free and stands as the string hashed.   *)
(***************************************************************************)
\* process.env: the settings generatePayfastPayload reads; passphrase None when
\* PAYFAST_PASSPHRASE is unset or empty.
Envs ==
    [merchant_id : {"10000100", "10000200"}, merchant_key : {"key46f0"},
     return_url : {"https://shop/return", "https://shop/return?x=1&y=2"},
     cancel_url : {"https://shop/cancel"},
     notify_url : {"https://shop/notify", "https://api.shop/notify"},
     passphrase : {None, "secret", "pass word"}]

\* The orders handed to generatePayfastPayload: _id and totalAmount.
PayOrders == [id : {"65a1", "65a2"}, totalAmount : {3, 5, 6}]

\* order.totalAmount.toFixed(2), for whole amounts
ToFixed2(n) ==
    CASE n = 3 -> "3.00" [] n = 4 -> "4.00" [] n = 5 -> "5.00" [] n = 6 -> "6.00"
      [] OTHER -> "0.00"

\* `Order #${order._id}`
ItemName(id) == IF id = "65a1" THEN "Order #65a1" ELSE "Order #65a2"

\* encodeURIComponent: letters, digits and - _ . ! ~ * ' ( ) stay, every other
\* character becomes %XX.
encodeURIComponent(v) ==
    CASE v = "https://shop/return"         -> "https%3A%2F%2Fshop%2Freturn"
      [] v = "https://shop/return?x=1&y=2" -> "https%3A%2F%2Fshop%2Freturn%3Fx%3D1%26y%3D2"
      [] v = "https://shop/cancel"         -> "https%3A%2F%2Fshop%2Fcancel"
      [] v = "https://shop/notify"         -> "https%3A%2F%2Fshop%2Fnotify"
      [] v = "https://api.shop/notify"     -> "https%3A%2F%2Fapi.shop%2Fnotify"
      [] v = "Order #65a1"                 -> "Order%20%2365a1"
      [] v = "Order #65a2"                 -> "Order%20%2365a2"
      [] v = "pass word"                   -> "pass%20word"
      [] OTHER                             -> v

\* The serialisation of URLSearchParams (application/x-www-form-urlencoded): as
\* encodeURIComponent on these values, but a space becomes +.
FormEncode(v) ==
    CASE v = "Order #65a1" -> "Order+%2365a1"
      [] v = "Order #65a2" -> "Order+%2365a2"
      [] v = "pass word"   -> "pass+word"
      [] OTHER             -> encodeURIComponent(v)

\* Object.keys(...).sort(): the keys in order of their code units ('_' sorts before
\* the lower-case letters).
KeyOrder ==
    <<"amount", "cancel_url", "item_name", "m_payment_id", "merchant_id", "merchant_key",
      "notify_url", "passphrase", "return_url", "signature">>

SortedKeys(obj) ==
    LET Has(k) == k \in DOMAIN obj IN SelectSeq(KeyOrder, Has)

\* Object.keys(params) in the order the properties were assigned (lines 329-341)
InsertionOrder ==
    <<"merchant_id", "merchant_key", "return_url", "cancel_url", "notify_url",
      "m_payment_id", "amount", "item_name", "passphrase">>

\* lines 329-342: params before the signature is added
PayfastParams(order, env) ==
    LET keys == {"merchant_id", "merchant_key", "return_url", "cancel_url", "notify_url",
                 "m_payment_id", "amount", "item_name"}
                \cup (IF env.passphrase # None THEN {"passphrase"} ELSE {})
    IN  [k \in keys |->
            CASE k = "m_payment_id" -> order.id
              [] k = "amount"       -> ToFixed2(order.totalAmount)
              [] k = "item_name"    -> ItemName(order.id)
              [] OTHER              -> env[k]]

\* lines 344-347: the string generatePayfastPayload hashes
OutboundSignatureString(params) ==
    [i \in 1..Len(SortedKeys(params)) |->
        <<SortedKeys(params)[i], encodeURIComponent(params[SortedKeys(params)[i]])>>]

\* generatePayfastPayload: params, the signature and the query of the redirect URL
\* (params in insertion order, the signature last).
generatePayfastPayload(order, env) ==
    LET params    == PayfastParams(order, env)
        signature == OutboundSignatureString(params)
        Has(k)    == k \in DOMAIN params
        keys      == SelectSeq(InsertionOrder, Has)
    IN  [params    |-> params,
         signature |-> signature,
         query     |-> [i \in 1..Len(keys) |-> <<keys[i], FormEncode(params[keys[i]])>>]
                       \o <<<<"signature", signature>>>>]

\* lines 418-425: the string verifyPayfastSignature hashes for any data and setting
VerifiedSignatureString(data, passphrase) ==
    [i \in 1..Len(SortedKeys(data)) |->
        <<SortedKeys(data)[i], encodeURIComponent(data[SortedKeys(data)[i]])>>]
    \o (IF passphrase # None THEN <<<<"passphrase", encodeURIComponent(passphrase)>>>>
        ELSE <<>>)

\* verifyPayfastSignature under a passphrase setting
VerifySignature(data, receivedSignature, passphrase) ==
    VerifiedSignatureString(data, passphrase) = receivedSignature

\* The outcome of one of the two functions: the order, the setting, the payload and, after
\* verification, the verdicts on the parameters as sent without the signature and
\* on the parameters without signature and passphrase.
PayfastResult(op, order, env, payload, sent, bare) ==
    [op |-> op, code |-> 0, deliveredAt |-> None, mail |-> None,
     order |-> order, env |-> env, payload |-> payload, sent |-> sent, bare |-> bare]

GeneratePayfastPayload(payOrders, envs) ==
    /\ \E order \in payOrders, env \in envs :
         lastRes' = PayfastResult("generatePayfastPayload", order, env,
                                  generatePayfastPayload(order, env), None, None)
    /\ UNCHANGED <<stock, orders, req, bulk, hook>>

Verdict(ok) == IF ok THEN "accepted" ELSE "rejected"

\* verifyPayfastSignature applied to what generatePayfastPayload produced.
VerifyPayload ==
    /\ lastRes.op = "generatePayfastPayload"
    /\ LET params == lastRes.payload.params
           bare   == [k \in DOMAIN params \ {"passphrase"} |-> params[k]]
       IN  lastRes' = PayfastResult("verifyPayfastSignature", lastRes.order, lastRes.env,
                                    lastRes.payload,
                         Verdict(VerifySignature(params, lastRes.payload.signature,
                                                 lastRes.env.passphrase)),
                         Verdict(VerifySignature(bare, lastRes.payload.signature,
                                                 lastRes.env.passphrase)))
    /\ UNCHANGED <<stock, orders, req, bulk, hook>>

(***************************************************************************)
(* Specifications.                                                         *)
(*   Spec          two concurrent single-item checkouts of a guest, beside *)
(*                 cancellations and payment notifications of the orders   *)
(*   SpecCheckout  one checkout, with every input                          *)
(*   SpecRestock   one checkout of a guest, beside status updates to       *)
(*                 Cancelled, to another valid status and to an invalid    *)
(*                 one, of a known or an unknown order                     *)
(*   FairRestock   SpecRestock where a pending bulkWrite op is eventually  *)
(*                 run (the driver runs the operations it was handed)      *)
(*   SpecAdmin     one single-item checkout of a guest, beside status      *)
(*                 updates of every kind: any status, valid or not, with   *)
(*                 or without a tracking id, of a known or an unknown      *)
(*                 order, the emails failing or not                        *)
(*   SpecHook      one checkout of a guest, beside payment notifications   *)
(*                 of every provider status and signature, for a known or  *)
(*                 an unknown order, and status updates to Shipped and     *)
(*                 Delivered                                               *)
(*   SpecStats     getSalesStats with every query, over a collection of    *)
(*                 orders created at different times                       *)
(*   SpecQuantity  one checkout of a guest whose item quantities are       *)
(*                 negative, zero or positive                              *)
(*   SpecAccess    one single-item checkout of a guest or a user, beside   *)
(*                 getOrderById by an owner, another user or an admin      *)
(*   SpecPayfast   generatePayfastPayload for every order and setting,     *)
(*                 and verifyPayfastSignature on what it produced          *)
(***************************************************************************)
Next ==
    \/ \E r \in Requests : CreateOrderStart(r, SingleItemLists, PresentSets)
    \/ \E r \in Requests : ProcessOrderItem(r)
    \/ \E r \in Requests : CreateOrderFinish(r, TRUE, {"sent"})
    \/ UpdateOrderStatus(DOMAIN orders, {"Cancelled"}, {None}, MaxRaceCancels, {"sent"})
    \/ \E u \in 1..MaxCancels : BulkWriteStep(u)
    \/ HookReceive(DOMAIN orders, {"COMPLETE", "FAILED"}, {"valid"})
    \/ HookSave

Spec == Init /\ [][Next]_vars

NextCheckout ==
    \/ CreateOrderStart(1, ItemLists, PresentSets)
    \/ ProcessOrderItem(1)
    \/ CreateOrderFinish(1, FALSE, {"sent"})

SpecCheckout == Init /\ [][NextCheckout]_vars

NextRestock ==
    \/ CreateOrderStart(1, ItemLists, PresentSets)
    \/ ProcessOrderItem(1)
    \/ CreateOrderFinish(1, TRUE, {"sent"})
    \/ UpdateOrderStatus(OrderIds, {"Cancelled", "Shipped", "Refunded"}, {None}, MaxCancels, {"sent"})
    \/ \E u \in 1..MaxCancels : BulkWriteStep(u)

SpecRestock == Init /\ [][NextRestock]_vars

FairRestock == SpecRestock /\ \A u \in 1..MaxCancels : WF_vars(BulkWriteStep(u))

NextAdmin ==
    \/ CreateOrderStart(1, SingleItemLists, PresentSets)
    \/ ProcessOrderItem(1)
    \/ CreateOrderFinish(1, TRUE, MailOutcomes)
    \/ UpdateOrderStatus(OrderIds, validStatuses \cup InvalidStatuses, TrackingIds,
                         MaxCancels, MailOutcomes)
    \/ \E u \in 1..MaxCancels : BulkWriteStep(u)

SpecAdmin == Init /\ [][NextAdmin]_vars

NextHook ==
    \/ CreateOrderStart(1, ItemLists, PresentSets)
    \/ ProcessOrderItem(1)
    \/ CreateOrderFinish(1, TRUE, {"sent"})
    \/ UpdateOrderStatus(OrderIds, {"Shipped", "Delivered"}, {None}, MaxCancels, {"sent"})
    \/ HookReceive(OrderIds, PaymentStatuses, SignatureKinds)
    \/ HookSave

SpecHook == Init /\ [][NextHook]_vars

NextStats == GetSalesStats(Queries)

SpecStats == InitStats /\ [][NextStats]_vars

NextQuantity ==
    \/ CreateOrderStart(1, AnyQuantityLists, PresentSets)
    \/ ProcessOrderItem(1)
    \/ CreateOrderFinish(1, TRUE, {"sent"})

SpecQuantity == Init /\ [][NextQuantity]_vars

NextAccess ==
    \/ CreateOrderStart(1, SingleItemLists, {RequiredFields})
    \/ ProcessOrderItem(1)
    \/ CreateOrderFinish(1, FALSE, {"sent"})
    \/ GetOrderById(OrderIds, Callers)

SpecAccess == Init /\ [][NextAccess]_vars

NextPayfast ==
    \/ GeneratePayfastPayload(PayOrders, Envs)
    \/ VerifyPayload

SpecPayfast == Init /\ [][NextPayfast]_vars

(***************************************************************************)
(* Properties.                                                             *)
(***************************************************************************)
\* The subtotal of a list of order items at the products' own prices.
RECURSIVE AuthoritativeSubtotal(_)
AuthoritativeSubtotal(items) ==
    IF items = <<>> THEN 0
    ELSE Price(Head(items).product) * Head(items).quantity + AuthoritativeSubtotal(Tail(items))

\* The quantity of product p that the persisted orders hold.
Committed(p) == SumSeq([o \in DOMAIN orders |-> QtyOf(orders[o].items, p)])

\* Request r has responded.
Done(r) == req[r].pc = "done"
\* Request r has responded after reading the amounts of its body.
ReadAmounts(r) == Done(r) /\ req[r].amounts.totalAmount # 0
\* The first response of request r, the one the client receives.
Answer(r) == req[r].res[1]
\* No product's stock differs from the stock before any request.
StockUntouched == \A p \in Products : stock[p] = InitStock

\* C1: as long as no stock was restored, the quantities of a product that the
\* persisted orders hold add up to at most the stock the product started with.
\* Stated as the claim has it; the code breaks it (two requests read the same
\* stock, both pass the check, both write).
C1_NoOversell ==
    bulk = <<>> => \A p \in Products : Committed(p) <= InitStock

\* C2: under every interleaving of order creations, cancellations and payment
\* notifications, the persisted stock of every product is at least 0.
C2_StockNonNegative ==
    \A p \in Products : stock[p] >= 0

\* A product is sold out while both orders are persisted, a cancellation's
\* bulkWrite is pending and a FAILED notification was applied.
C2_Witness ==
    /\ \E p \in Products : stock[p] = 0
    /\ Len(orders) = 2
    /\ \E u \in DOMAIN bulk : bulk[u].ops # <<>>
    /\ \E o \in DOMAIN orders : orders[o].paymentResult.status = "FAILED"

\* C3: when a request has failed on an item (insufficient stock, unknown product),
\* the stock of every item it processed before is what it was before the request.
\* Stated as the claim has it; the code leaves the earlier items decremented.
C3_LaterItemFailureRestoresEarlier ==
    \A r \in Requests :
        (Done(r) /\ Answer(r).kind \in {"InsufficientStock", "ProductNotFound"})
        => \A k \in 1..Len(req[r].orderItems) :
              stock[req[r].orderItems[k].product] = InitStock

\* C4: a request that ended without an order has left all stock as it was, and a
\* request that persisted an order has taken exactly the order's quantities.
\* Stated as the claim has it; the code keeps the decrements of a failed request.
C4_AllOrNothing ==
    \A r \in Requests : Done(r) =>
        IF req[r].order = 0
        THEN StockUntouched
        ELSE \A p \in Products :
                stock[p] = InitStock - QtyOf(orders[req[r].order].items, p)

\* C5: a request whose declared total differs from the authoritative subtotal +
\* shipping cost - discount is answered AmountMismatch, persists no order and
\* leaves all stock as it was.  Stated as the claim has it; the code has
\* decremented the stock by then and does not restore it.
C5_AmountMismatchRollsBack ==
    \A r \in Requests :
        (/\ ReadAmounts(r)
         /\ req[r].amounts.hasDiscount
         /\ req[r].amounts.totalAmount #
              AuthoritativeSubtotal(req[r].orderItems) + req[r].amounts.shippingCost
                - req[r].amounts.discount)
        => /\ Answer(r) = Response(400, "AmountMismatch")
           /\ req[r].order = 0
           /\ StockUntouched

\* C6: a guest's request with a coupon code (its amounts being consistent) fails
\* with CouponRequiresAuth, persists no order and decrements no stock.  Stated as
\* the claim has it; the code has decremented the stock before it looks at the coupon.
C6_GuestCouponDecrementsNothing ==
    \A r \in Requests :
        (/\ ReadAmounts(r)
         /\ req[r].amounts.couponCode # None
         /\ req[r].amounts.user = None
         /\ req[r].amounts.hasDiscount
         /\ req[r].amounts.totalAmount =
              AuthoritativeSubtotal(req[r].orderItems) + req[r].amounts.shippingCost
                - req[r].amounts.discount)
        => /\ Answer(r).kind = "CouponRequiresAuth"
           /\ req[r].order = 0
           /\ StockUntouched

\* C7: every persisted order has totalAmount = subtotal + shippingCost - discount
\* on its stored fields.  Stated as the claim has it; the code checks the total
\* against the subtotal it computed and stores the subtotal the client declared.
C7_PersistedTotalConsistent ==
    \A o \in DOMAIN orders :
        orders[o].totalAmount = orders[o].subtotal + orders[o].shippingCost - orders[o].discount

\* C8: a request with a discount field that passed the field, stock and coupon
\* checks is accepted exactly when its declared total is the authoritative
\* subtotal (unit price x quantity over its items) + shipping cost - discount.
C8_AcceptedIffTotalMatches ==
    \A r \in Requests :
        (/\ ReadAmounts(r)
         /\ req[r].amounts.hasDiscount
         /\ handleCoupon(req[r].amounts.couponCode, req[r].amounts.user).error = None
         /\ req[r].amounts.paymentMethod \in {"COD", "PayFast"})
        => ((req[r].order # 0 /\ Answer(r).code = 201)
            <=> req[r].amounts.totalAmount =
                  AuthoritativeSubtotal(req[r].orderItems) + req[r].amounts.shippingCost
                    - req[r].amounts.discount)

\* A two-item order was accepted with a discount, and its declared total is the
\* authoritative one.
C8_Witness ==
    \E r \in Requests :
        /\ Done(r) /\ req[r].order # 0
        /\ Len(req[r].orderItems) = 2
        /\ req[r].amounts.discount = 1
        /\ req[r].amounts.totalAmount =
             AuthoritativeSubtotal(req[r].orderItems) + req[r].amounts.shippingCost - 1

\* C9: the subtotal stored on every persisted order is the sum over its items of
\* the product's unit price times the quantity.  Stated as the claim has it; the
\* code stores amounts.subtotal, which it never compares with what it computed.
C9_StoredSubtotalAuthoritative ==
    \A o \in DOMAIN orders : orders[o].subtotal = AuthoritativeSubtotal(orders[o].items)

\* C10: a status update that moves an order to Cancelled for the first time
\* leads to every product's stock having been increased, by that update's
\* bulkWrite, by exactly the quantity the order holds of it (0 for a product
\* the order does not hold), and the bulkWrite never adds more than that.
C10_CancelRestoresStock ==
    /\ [](\A u \in DOMAIN bulk : \A p \in Products :
            bulk[u].restored[p] <= QtyOf(orders[bulk[u].order].items, p))
    /\ \A u \in 1..MaxCancels :
          (u \in DOMAIN bulk /\ bulk[u].first)
            ~> (u \in DOMAIN bulk /\ \A p \in Products :
                  bulk[u].restored[p] = QtyOf(orders[bulk[u].order].items, p))

\* The bulkWrite of a first cancellation of an order of both products has run.
C10_Witness ==
    \E u \in DOMAIN bulk :
        /\ bulk[u].first /\ bulk[u].ops = <<>>
        /\ bulk[u].restored["A"] > 0 /\ bulk[u].restored["B"] > 0
        /\ stock = [p \in Products |-> InitStock]

\* The stock of product p that the bulkWrites issued for order o have restored.
RestoredFor(o, p) ==
    SumSeq([u \in DOMAIN bulk |-> IF bulk[u].order = o THEN bulk[u].restored[p] ELSE 0])

\* C11: however many status updates to Cancelled an order receives, the stock
\* restored for it is at most the order's quantity of each product: once, not
\* once per update.  Stated as the claim has it; the code issues restoreStock on
\* every update to Cancelled, whatever the status was before.
C11_CancelIdempotent ==
    \A o \in DOMAIN orders : \A p \in Products :
        RestoredFor(o, p) <= QtyOf(orders[o].items, p)

\* A notification applied to an order with nothing in between: Order.findById,
\* updateOrderFromPayment, order.save().
Notified(order, data) == OrderSave(order, PaymentUpdate(order, data))

RECURSIVE NotifiedTimes(_, _, _)
NotifiedTimes(order, data, n) ==
    IF n = 0 THEN order ELSE NotifiedTimes(Notified(order, data), data, n - 1)

\* The notification whose write is pending.
HookData ==
    [m_payment_id |-> hook.id, payment_status |-> hook.set.paymentResult.status,
     pf_payment_id |-> hook.set.paymentResult.id]

\* The order is as some application of the notification leaves it.
AlreadyNotified(order, data) ==
    \E s \in validStatuses : order = Notified([order EXCEPT !.status = s], data)

\* C12: applying a validly signed notification N >= 1 times in a row leaves the
\* order's status and payment result as applying it once does; and the write of a
\* notification onto an order that is as this notification leaves it changes
\* nothing of the order.
C12_ReplaySameAsOnce ==
    /\ [](\A id \in DOMAIN orders : \A data \in NotificationData({id}, PaymentStatuses) :
            \A n \in 1..MaxReplays :
               NotifiedTimes(orders[id], data, n) = Notified(orders[id], data))
    /\ [][(HookSave /\ AlreadyNotified(orders[hook.id], HookData))
            => orders' = orders]_vars

\* A FAILED notification is being written onto a two-item order that the same
\* notification has cancelled before.
C12_Witness ==
    /\ hook.pc = "save"
    /\ hook.set.paymentResult.status = "FAILED"
    /\ AlreadyNotified(orders[hook.id], HookData)
    /\ Len(orders[hook.id].items) = 2

\* C13: every notification whose signature is not the one recomputed from its
\* data and the passphrase (signed without the passphrase, altered after signing,
\* or arbitrary) is answered 400, and neither an order, nor a product's stock, nor
\* a pending write changes with it.
C13_BadSignatureRejected ==
    [][HookReceive(OrderIds, PaymentStatuses, SignatureKinds \ {"valid"})
         => /\ lastRes' = HookResponse(400)
            /\ UNCHANGED <<stock, orders, bulk, hook, req>>]_vars

\* A notification was rejected for its signature while an order exists whose
\* payment was completed by an earlier, valid one.
C13_Witness ==
    /\ lastRes = HookResponse(400)
    /\ hook.pc = "idle"
    /\ \E o \in DOMAIN orders : orders[o].paymentResult.status = "COMPLETE"

\* C14: the write of an accepted FAILED notification onto an order that is not
\* Cancelled leaves the order Cancelled and every product's stock raised by the
\* quantity the order holds of it.  Stated as the claim has it; the handler sets
\* the status and writes no stock.
C14_FailedPaymentRestocks ==
    [][(/\ HookSave
        /\ hook.set.paymentResult.status = "FAILED"
        /\ orders[hook.id].status # "Cancelled")
         => /\ orders'[hook.id].status = "Cancelled"
            /\ \A p \in Products :
                  stock'[p] = stock[p] + QtyOf(orders[hook.id].items, p)]_vars

\* C15: a notification delivered again, to an order that is as the same
\* notification has left it, changes no product's stock, neither when it is
\* received nor when it is written.
C15_DuplicateKeepsStock ==
    [][(\/ \E data \in NotificationData(DOMAIN orders, PaymentStatuses) :
             /\ AlreadyNotified(orders[data.m_payment_id], data)
             /\ HookReceive({data.m_payment_id}, {data.payment_status}, {"valid"})
        \/ HookSave /\ AlreadyNotified(orders[hook.id], HookData))
         => stock' = stock]_vars

\* The second delivery of a FAILED notification is being written while the stock
\* the cancelled order took is still taken.
C15_Witness ==
    /\ hook.pc = "save"
    /\ orders[hook.id].status = "Cancelled"
    /\ orders[hook.id].paymentResult.status = "FAILED"
    /\ AlreadyNotified(orders[hook.id], HookData)
    /\ \E p \in Products : stock[p] < InitStock

\* C16: a COMPLETE notification applied to an order leaves its status Processing
\* and its payment result holding the notification's transaction id and provider
\* status; and the write of an accepted COMPLETE notification leaves the stored
\* order so, unless the order was Processing when the handler read it and a
\* status update has landed since (the update then counts as the later one).
C16_CompleteSetsProcessing ==
    /\ [](\A id \in DOMAIN orders : \A data \in NotificationData({id}, {"COMPLETE"}) :
            LET o == Notified(orders[id], data) IN
              /\ o.status = "Processing"
              /\ o.paymentResult.id = data.pf_payment_id
              /\ o.paymentResult.status = "COMPLETE")
    /\ [][(HookSave /\ hook.set.paymentResult.status = "COMPLETE")
            => /\ orders'[hook.id].paymentResult = [id |-> "pf1", status |-> "COMPLETE"]
               /\ \/ orders'[hook.id].status = "Processing"
                  \/ "status" \notin DOMAIN hook.set /\ orders[hook.id].status # "Processing"]_vars

\* A COMPLETE notification was accepted: the order is Processing and holds the
\* payment.
C16_Witness ==
    /\ lastRes = HookResponse(200)
    /\ hook.pc = "idle"
    /\ \E o \in DOMAIN orders :
          /\ orders[o].paymentResult = [id |-> "pf1", status |-> "COMPLETE"]
          /\ orders[o].status = "Processing"

\* C17: every validly signed notification whose order id matches no order is
\* answered 404, and neither an order, nor a product's stock, nor a pending write
\* changes with it.
C17_UnknownOrderNotFound ==
    [][HookReceive(OrderIds \ DOMAIN orders, PaymentStatuses, {"valid"})
         => /\ lastRes' = HookResponse(404)
            /\ UNCHANGED <<stock, orders, bulk, hook, req>>]_vars

\* A notification for an unknown order was answered 404 while an order exists and
\* its stock is taken.
C17_Witness ==
    /\ lastRes = HookResponse(404)
    /\ hook.pc = "idle"
    /\ orders # <<>>
    /\ \E p \in Products : stock[p] < InitStock

\* C18: every status update whose status is not in the list is answered 400,
\* whatever the order id, and every status update with a listed status and an id
\* that matches no order is answered 404; neither changes an order (its status,
\* its tracking id), a product's stock or a pending bulkWrite.
C18_InvalidStatusOrUnknownOrder ==
    /\ [][UpdateOrderStatus(OrderIds, InvalidStatuses, TrackingIds, MaxCancels, MailOutcomes)
            => /\ lastRes' = AdminResponse(400, None, None)
               /\ UNCHANGED <<stock, orders, bulk, hook, req>>]_vars
    /\ [][UpdateOrderStatus(OrderIds \ DOMAIN orders, validStatuses, TrackingIds,
                            MaxCancels, MailOutcomes)
            => /\ lastRes' = AdminResponse(404, None, None)
               /\ UNCHANGED <<stock, orders, bulk, hook, req>>]_vars

\* A status update was answered 400 while an order with a tracking id exists
\* that is no longer Processing.
C18_Witness ==
    /\ lastRes = AdminResponse(400, None, None)
    /\ \E o \in DOMAIN orders :
          orders[o].trackingId = "TRK" /\ orders[o].status # "Processing"

\* C19: a status update to Delivered of an existing order leaves the stored order
\* with deliveredAt set to the time of the update.  Stated as the claim has it; the
\* code sets deliveredAt on the document it sends back and does not save it.
C19_DeliveredAtPersisted ==
    [][\A id \in OrderIds :
         (/\ id \in DOMAIN orders
          /\ UpdateOrderStatus({id}, {"Delivered"}, TrackingIds, MaxCancels, MailOutcomes))
           => orders'[id].deliveredAt = "now"]_vars

\* C20: a guest's checkout whose confirmation email failed has answered 201 and
\* its order is in the store, in every later state; and a status update whose
\* email fails answers 200 and leaves the order at the status asked for.
C20_EmailFailureHarmless ==
    /\ [](\A r \in Requests :
            (Done(r) /\ req[r].mail = "failed")
              => /\ req[r].order \in DOMAIN orders
                 /\ req[r].res = <<Response(201, "Created")>>)
    /\ [][\A id \in OrderIds : \A status \in MailedStatuses :
            (/\ id \in DOMAIN orders
             /\ UpdateOrderStatus({id}, {status}, TrackingIds, MaxCancels, {"failed"}))
              => /\ lastRes'.code = 200 /\ lastRes'.mail = "failed"
                 /\ orders'[id].status = status]_vars

\* The confirmation email of the order failed, and so did the email of the
\* status update that shipped it.
C20_Witness ==
    /\ \E r \in Requests : Done(r) /\ req[r].mail = "failed" /\ req[r].order # 0
    /\ lastRes = AdminResponse(200, None, "failed")
    /\ \E o \in DOMAIN orders : orders[o].status = "Shipped"

\* C21: a status update to Shipped or Tracking on an order whose status is Delivered
\* or Cancelled does not change the order's status.
C21_ShippedOnlyFromProcessing ==
    [][\A id \in OrderIds :
         (/\ id \in DOMAIN orders
          /\ orders[id].status \in {"Delivered", "Cancelled"}
          /\ UpdateOrderStatus({id}, {"Shipped", "Tracking"}, TrackingIds, MaxCancels,
                               MailOutcomes))
         => orders'[id].status = orders[id].status]_vars

\* C22: a status update whose target is not Cancelled (Processing, Shipped, Tracking,
\* Delivered, with or without a tracking id) leaves every product's stock unchanged
\* and issues no stock write.
C22_NonCancelKeepsStock ==
    [][UpdateOrderStatus(OrderIds, validStatuses \ {"Cancelled"}, TrackingIds, MaxCancels,
                         MailOutcomes)
       => /\ stock' = stock
          /\ bulk' = bulk]_vars

\* Orders were moved to Shipped, Tracking and Delivered, the last with a tracking id,
\* while stock was committed to the order.
C22_Witness ==
    /\ lastRes.op = "updateOrderStatus"
    /\ lastRes.code = 200
    /\ \E id \in DOMAIN orders :
         /\ orders[id].status \in {"Shipped", "Tracking", "Delivered"}
         /\ orders[id].trackingId = "TRK"
         /\ \E p \in Products : QtyOf(orders[id].items, p) > 0 /\ stock[p] < InitStock
    /\ bulk = <<>>

\* The orders whose creation time lies between two dates, both included.
CreatedBetween(s, e) ==
    {id \in DOMAIN orders : orders[id].createdAt >= s /\ orders[id].createdAt <= e}

RECURSIVE TotalOf(_, _)
TotalOf(ids, field) ==
    IF ids = {} THEN 0
    ELSE LET id == CHOOSE i \in ids : TRUE IN orders[id][field] + TotalOf(ids \ {id}, field)

\* C23: for a query with both dates, getSalesStats succeeds and returns, over exactly
\* the orders created within the range, the order count, the count of orders with a
\* coupon reference and the sums of subtotals, shipping costs and total amounts; when
\* no order lies in the range the five fields are 0.
C23_SalesStatsOverRange ==
    [][\A s \in Dates, e \in Dates :
         GetSalesStats(DatedQuery(s, e))
         => LET ids == CreatedBetween(s, e) IN
            /\ lastRes'.code = 200
            /\ lastRes'.data.totalOrders = Cardinality(ids)
            /\ lastRes'.data.couponsUsed =
                   Cardinality({id \in ids : orders[id].couponUsed # None})
            /\ lastRes'.data.totalSales = TotalOf(ids, "subtotal")
            /\ lastRes'.data.totalShippingCost = TotalOf(ids, "shippingCost")
            /\ lastRes'.data.totalRevenue = TotalOf(ids, "totalAmount")
            /\ ids = {} => \A f \in DOMAIN lastRes'.data : lastRes'.data[f] = 0]_vars

\* The statistics of a range that holds one of two orders, the one with a coupon.
C23_Witness ==
    /\ lastRes.op = "getSalesStats"
    /\ lastRes.code = 200
    /\ Len(orders) = 2
    /\ orders[1].couponUsed = None /\ orders[2].couponUsed # None
    /\ orders[1].createdAt < orders[2].createdAt
    /\ lastRes.data.totalOrders = 1
    /\ lastRes.data.couponsUsed = 1
    /\ lastRes.data.totalRevenue = orders[2].totalAmount

\* C24: a persisted order carries a coupon reference only if its request supplied a
\* coupon code, came from an authenticated user and the code names an existing
\* coupon (in any letter case), and the reference is that coupon; a request of an
\* authenticated user whose code names no coupon persists no order and, once its
\* amounts are accepted, fails with CouponInvalid.
C24_CouponReferenceValidated ==
    /\ \A o \in DOMAIN orders :
          orders[o].couponUsed # None
          => \E r \in Requests :
               /\ Done(r) /\ req[r].order = o
               /\ req[r].amounts.couponCode \in {"save", "SAVE"}
               /\ req[r].amounts.user # None
               /\ orders[o].couponUsed = "SAVE"
    /\ \A r \in Requests :
          (/\ ReadAmounts(r)
           /\ req[r].amounts.user # None
           /\ req[r].amounts.couponCode \notin {None, "save", "SAVE"})
          => /\ req[r].order = 0
             /\ (/\ req[r].amounts.hasDiscount
                 /\ req[r].amounts.totalAmount =
                      AuthoritativeSubtotal(req[r].orderItems) + req[r].amounts.shippingCost
                        - req[r].amounts.discount)
                => (Len(req[r].res) = 1 /\ Answer(r).kind = "CouponInvalid")

\* An authenticated user's order was persisted with the coupon its lower-case code
\* names.
C24_Witness ==
    \E r \in Requests :
        /\ Done(r) /\ req[r].order \in DOMAIN orders
        /\ req[r].amounts.couponCode = "save"
        /\ req[r].amounts.user = "u1"
        /\ orders[req[r].order].couponUsed = "SAVE"
        /\ Answer(r).code = 201

\* C25: no order is persisted with a non-zero discount unless it carries a coupon
\* reference; a request that declares discount > 0 without a coupon code is rejected.
\* Stated as the claim has it; the code takes the discount from the body and checks
\* only that the total fits it.
C25_DiscountNeedsCoupon ==
    /\ \A o \in DOMAIN orders :
          orders[o].discount # 0 => orders[o].couponUsed # None
    /\ \A r \in Requests :
          (/\ ReadAmounts(r)
           /\ req[r].amounts.hasDiscount /\ req[r].amounts.discount > 0
           /\ req[r].amounts.couponCode = None)
          => req[r].order = 0

\* C26: createOrder answers a business failure with a client-error status and the
\* failure's own kind, never with 500: insufficient stock, an unknown product, an
\* invalid coupon, a coupon without authentication; and an amount mismatch with
\* exactly one response.  Stated as the claim has it; the code answers every thrown
\* error from one catch block.
C26_BusinessFailuresOwnKind ==
    \A r \in Requests :
        Done(r) =>
          /\ \A k \in 1..Len(req[r].res) :
                req[r].res[k].kind \in {"InsufficientStock", "ProductNotFound",
                                        "CouponInvalid", "CouponRequiresAuth",
                                        "AmountMismatch"}
                => req[r].res[k].code \in {400, 404, 409}
          /\ Answer(r).kind = "AmountMismatch" => Len(req[r].res) = 1

\* No operation is in flight: every createOrder has responded, every bulkWrite has
\* run all its ops and no notification has a write pending.
Quiescent ==
    /\ \A r \in Requests : req[r].pc \in {"idle", "done"}
    /\ \A u \in DOMAIN bulk : bulk[u].ops = <<>>
    /\ hook.pc = "idle"

\* The quantity of product p that the persisted orders which are not Cancelled hold.
Held(p) ==
    SumSeq([o \in DOMAIN orders |->
              IF orders[o].status # "Cancelled" THEN QtyOf(orders[o].items, p) ELSE 0])

\* C27: stock conservation.  Whenever no operation is in flight, the stock of each
\* product plus the quantity of it held by the persisted orders that are not
\* Cancelled is the product's initial stock.  Stated as the claim has it; the code
\* keeps the decrements of a request that fails, restores stock at every update to
\* Cancelled and restores none when a notification cancels.
C27_StockConservation ==
    Quiescent => \A p \in Products : stock[p] + Held(p) = InitStock

\* C28: the write of a payment notification onto an order that is Cancelled, and
\* whose stock a cancellation has restored in full, leaves the order Cancelled.
\* Stated as the claim has it; updateOrderFromPayment sets Processing for a COMPLETE
\* notification whatever the order's status is.
C28_CancelledStaysCancelled ==
    [][(/\ HookSave
        /\ orders[hook.id].status = "Cancelled"
        /\ \E u \in DOMAIN bulk : bulk[u].order = hook.id /\ bulk[u].ops = <<>>)
         => orders'[hook.id].status = "Cancelled"]_vars

\* C29: a restoration that lands between a createOrder's read of a product and its
\* product.save() is not lost: when the stock stored is above what the request
\* read, the save takes the item's quantity off the stock stored.  Stated as the
\* claim has it; the save writes the stock computed from the request's own copy.
C29_RestoreNotLost ==
    [][\A r \in Requests :
         (/\ ProcessOrderItem(r)
          /\ req'[r].pc # "done"
          /\ stock[req[r].items[req[r].i].id] > req[r].docs[req[r].items[req[r].i].id])
         => LET item == req[r].items[req[r].i] IN
            stock'[item.id] = stock[item.id] - item.quantity]_vars

\* C30: no createOrder request, whatever quantities its items carry and whether it
\* succeeds or fails, leaves a product's stock higher than it was before the
\* request.  Stated as the claim has it; a negative quantity passes the stock check
\* and the decrement by it raises the stock that product.save() writes.
C30_StockNeverRaised ==
    \A r \in Requests :
        Done(r) => \A p \in Products : stock[p] <= InitStock

\* C31: a createOrder request in which a required field (email, phone, name,
\* subtotal, shippingCost, shippingAddress, totalAmount) is absent, empty or the
\* number 0, or whose item list is empty, is answered 400 at once: no product is
\* read, no stock is changed and no order is persisted.
C31_MissingFieldRejected ==
    [][(\/ CreateOrderStart(1, ItemLists,
                {TruthyFields(b) : b \in {c \in Bodies : \E f \in RequiredFields :
                                                          c[f] \in {"absent", "empty", "zero"}}})
        \/ CreateOrderStart(1, {<<>>}, PresentSets))
         => /\ req'[1].pc = "done"
            /\ Len(req'[1].res) = 1 /\ req'[1].res[1].code = 400
            /\ req'[1].docs = <<>> /\ req'[1].orderItems = <<>> /\ req'[1].order = 0
            /\ stock' = stock
            /\ orders' = orders]_vars

\* A request was rejected at once, for a missing field or for its empty item list.
C31_Witness ==
    /\ Done(1)
    /\ Answer(1).code = 400
    /\ Answer(1).kind \in {"ValidationError", "NoItems"}
    /\ StockUntouched /\ orders = <<>>

\* C32: a request without a discount field that passed the field, stock and coupon
\* checks and whose declared total is the authoritative subtotal + shipping cost is
\* accepted, and its order is persisted with discount 0.  Stated as the claim has
\* it; in the code the total is compared with a number minus undefined.
C32_OmittedDiscountIsZero ==
    \A r \in Requests :
        (/\ ReadAmounts(r)
         /\ ~req[r].amounts.hasDiscount
         /\ handleCoupon(req[r].amounts.couponCode, req[r].amounts.user).error = None
         /\ req[r].amounts.paymentMethod \in {"COD", "PayFast"}
         /\ req[r].amounts.totalAmount =
              AuthoritativeSubtotal(req[r].orderItems) + req[r].amounts.shippingCost)
        => /\ req[r].order \in DOMAIN orders
           /\ Answer(r).code = 201
           /\ orders[req[r].order].discount = 0

C34_OrderOnlyToOwnerOrAdmin ==
    [][\A id \in OrderIds : \A user \in Callers :
         GetOrderById({id}, {user})
         => /\ lastRes'.op = "getOrderById"
            /\ IF id \notin DOMAIN orders
               THEN lastRes'.code = 404 /\ lastRes'.order = 0
               ELSE IF user.role = "admin" \/ orders[id].user = user.id
               THEN lastRes'.code = 200 /\ lastRes'.order = id
               ELSE lastRes'.code = 403 /\ lastRes'.order = 0
            /\ UNCHANGED <<stock, orders>>]_vars

\* A caller was refused while a guest's order and no order of a user exists.
C34_Witness ==
    /\ lastRes.op = "getOrderById"
    /\ lastRes.code = 403
    /\ Len(orders) = 1
    /\ orders[1].user = None

\* The five statistics taken over a set of orders.
StatsOver(ids) ==
    [totalOrders       |-> Cardinality(ids),
     couponsUsed       |-> Cardinality({id \in ids : orders[id].couponUsed # None}),
     totalSales        |-> TotalOf(ids, "subtotal"),
     totalShippingCost |-> TotalOf(ids, "shippingCost"),
     totalRevenue      |-> TotalOf(ids, "totalAmount")]

\* C35: getSalesStats aggregates the orders of the explicit range when both dates are
\* given, whatever the period; otherwise those of the last 7 days for period week,
\* of the last month (30 days) for month, of the last year (365 days) for year, each
\* up to now, and every order for any other period; and every order when neither
\* both dates nor a period are given, one date alone included.
C35_RangeSelection ==
    [][\A q \in Queries :
         GetSalesStats({q})
         => lastRes'.data =
              StatsOver(IF q.hasStart /\ q.hasEnd
                          THEN CreatedBetween(q.startDate, q.endDate)
                        ELSE IF q.period = "week"  THEN CreatedBetween(Now - 7, Now)
                        ELSE IF q.period = "month" THEN CreatedBetween(Now - 30, Now)
                        ELSE IF q.period = "year"  THEN CreatedBetween(Now - 365, Now)
                        ELSE DOMAIN orders)]_vars

\* The statistics of two orders, one created a year ago and one a month ago, of
\* which one is counted.
C35_Witness ==
    /\ lastRes.op = "getSalesStats"
    /\ Len(orders) = 2
    /\ orders[1].createdAt = Now - 365
    /\ orders[2].createdAt = Now - 30
    /\ lastRes.data.totalOrders = 1
    /\ lastRes.data.totalRevenue = orders[2].totalAmount

\* C36: for every parameter set, with or without a passphrase, the signature that
\* generatePayfastPayload computes is accepted by verifyPayfastSignature applied to
\* the parameters without the signature field (as they are sent or, at the least,
\* without the passphrase among them).  Stated as the claim has it; the outbound
\* string holds the passphrase in key order, the inbound one appends it.
C36_SignatureRoundTrip ==
    lastRes.op = "verifyPayfastSignature"
    => (lastRes.sent = "accepted" \/ lastRes.bare = "accepted")

\* The parameters of a redirect URL's query other than the signature.
NonSignature(query) ==
    LET Other(pair) == pair[1] # "signature" IN SelectSeq(query, Other)

\* C37: the passphrase is no parameter of the redirect URL that
\* generatePayfastPayload returns, and two settings that differ only in the
\* passphrase give, for the same order, URLs that differ only in the signature
\* parameter.  Stated as the claim has it; the code adds the passphrase to params,
\* which it serialises whole.
C37_PassphraseNotInUrl ==
    lastRes.op = "generatePayfastPayload"
    => /\ \A i \in 1..Len(lastRes.payload.query) :
             lastRes.payload.query[i][1] # "passphrase"
       /\ \A env \in Envs :
             [env EXCEPT !.passphrase = lastRes.env.passphrase] = lastRes.env
             => NonSignature(generatePayfastPayload(lastRes.order, env).query)
                  = NonSignature(lastRes.payload.query)

====
